---------------------------- MODULE Spec2Model ----------------------------
(***************************************************************************)
(* A model of the beza drawing board:                                      *)
(*   - the three Daydream proxy routes (prompt, stream, oneshot) and the   *)
(*     status polling loop pollForResult of the prompt route;              *)
(*   - the Socket.IO signaling relay that joins sockets to rooms;          *)
(*   - the board page: its pages list, saveCanvasState, local storage and  *)
(*     the debounced persistence of the Canvas component;                  *)
(*   - the socket of a board or viewer page;                               *)
(*   - the floating camera window.                                         *)
(* Every await of a handler is a step boundary: an action is the code a    *)
(* handler runs between two awaits.                                        *)
(***************************************************************************)
EXTENDS Integers, Sequences, FiniteSets, TLC

VARIABLES
    \* ---- proxy routes (one request handler at a time) ----
    route,      \* which route handles the current request
    pc,         \* position of the handler
    req,        \* the parsed JSON body of the current request
    i,          \* loop counter of pollForResult
    resp,       \* the response returned to the browser
    nSubmit,    \* submission requests sent to the external service
    nPolls,     \* status requests sent to the external service
    nWaits,     \* setTimeout waits of the polling loop
    subReply,   \* the external service's answer to the submission
    pollReply,  \* the external service's answer to the last status request
    fwd,        \* the JSON body of the submission sent to the external service
    elapsed,    \* milliseconds the polling loop has spent in its waits
    \* ---- signaling relay ----
    connected,  \* sockets with an open connection
    rooms,      \* rooms[s]: the rooms socket s is a member of
    joined,     \* joined[s]: the rooms s has emitted joinSession for
    lastRoom,   \* the room the message the relay is emitting is addressed to
    delivered,  \* the sockets that message is delivered to
    \* ---- board page (one browser tab) ----
    open,           \* a Board component is rendered
    boardRoom,      \* useParams().roomId of the rendered Board
    pages,          \* the pages state of Board
    activePageId,   \* the activePageId state of Board
    lastSavedState, \* lastSavedState.current
    editorMounted,  \* editorRef.current is an editor
    doc,            \* the content of the editor's store
    persisted,      \* what the drawing toolkit keeps under its persistenceKey
    storage,        \* localStorage: key |-> item
    written,        \* history: the last pages list saveCanvasState wrote, per room
    loadPending,    \* the snapshot loading effect of Board is scheduled
    effectsRan,     \* the effects of Canvas have run
    listening,      \* handleStoreChange is registered with the store
    armed,          \* the debounce timer of debouncedSave is set
    sinceLast,      \* milliseconds since the last call of debouncedSave
    idlePending,    \* a save is scheduled with requestIdleCallback
    unsaved,        \* history: a user change not yet followed by a save
    lastOp,         \* the step of the board page taken last: open, save or another
    \* ---- socket of a board or viewer page ----
    sockPage,       \* which page owns the socket
    sockRoom,       \* useParams().roomId of that page
    sockState,      \* state of the socket's connection
    attempts,       \* reconnection attempts since the connection was lost
    emitted,        \* the events the client has emitted on the socket
    nConnects,      \* connect events the socket has fired
    nEmits,         \* emit calls the client has made
    \* ---- floating camera window ----
    viewport,       \* window.innerWidth, window.innerHeight
    size,           \* the size state
    position,       \* the position state
    dragging,       \* the dragging state
    dragOffset,     \* dragOffset.current
    audioOn,        \* the audio toggle
    videoOn,        \* the video toggle
    stream,         \* the getUserMedia request and streamRef.current
    audioEnabled,   \* enabled flag of the stream's audio tracks
    videoEnabled,   \* enabled flag of the stream's video tracks
    lastCamOp,      \* the step of the camera window taken last
    camMounted,     \* a FloatingCam component is mounted
    stale,          \* getUserMedia requests pending for an effect already cleaned up
    orphans,        \* streams with live tracks that no reference reaches
    \* ---- enhancement and generation runs of the board page ----
    editorReady,    \* editorRef.current is an editor
    aiPrompt,       \* the aiPrompt state
    generatePrompt, \* the generatePrompt state
    useEnhanced,    \* the enhancement toggle of the camera window
    camStream,      \* the camera window holds a stream
    videoStream,    \* videoStreamRef.current is a stream
    isEnhancing,    \* the isEnhancing state
    isGenerating,   \* the isGenerating state
    enhRuns,        \* runs of handleEnhanceVideo between setIsEnhancing(true) and finally
    genRuns,        \* runs of handleGenerateVideo between setIsGenerating(true) and finally
    lastExit,       \* the path by which the last run ended
    \* ---- layers panel ----
    shapes,         \* the shapes of the editor's current page: id |-> shape
    selection,      \* editor.getSelectedShapeIds()
    shownAt,        \* history: where a hidden shape was right before it was hidden
    selBefore,      \* history: the selection right before the visibility toggle just made
    lastLayerOp,    \* the step of the layers panel taken last
    \* ---- the earlier Board with several pages ----
    renderedPages,  \* the pages state as of the last render, which handlers read
    renderedActive, \* the activePageId state as of the last render
    queuedPages,    \* the pages state once the queued updates are applied
    queuedActive,   \* the activePageId state once the queued updates are applied
    updaterActive,  \* the activePageId an updater of setPages sets while rendering
    updaterThrows,  \* an updater of setPages will throw while rendering
    crashed,        \* rendering threw
    panelEditor,    \* editorRef.current is an editor
    panelDoc,       \* the content of that editor's store
    panelLastSaved, \* lastSavedState.current
    panelListening, \* the store listener of Canvas is registered
    lastPageOp      \* the step of this Board taken last

proxyVars == <<route, pc, req, i, resp, nSubmit, nPolls, nWaits, subReply, pollReply,
              fwd, elapsed>>
relayVars == <<connected, rooms, joined, lastRoom, delivered>>
boardVars == <<open, boardRoom, pages, activePageId, lastSavedState, editorMounted, doc,
              persisted, storage, written, loadPending, effectsRan, listening, armed,
              sinceLast, idlePending, unsaved, lastOp>>
clientVars == <<sockPage, sockRoom, sockState, attempts, emitted, nConnects, nEmits>>
camVars == <<viewport, size, position, dragging, dragOffset, audioOn, videoOn, stream,
            audioEnabled, videoEnabled, lastCamOp, camMounted, stale, orphans>>
runVars == <<editorReady, aiPrompt, generatePrompt, useEnhanced, camStream, videoStream,
            isEnhancing, isGenerating, enhRuns, genRuns, lastExit>>
layerVars == <<shapes, selection, shownAt, selBefore, lastLayerOp>>
panelVars == <<renderedPages, renderedActive, queuedPages, queuedActive, updaterActive,
              updaterThrows, crashed, panelEditor, panelDoc, panelLastSaved, panelListening,
              lastPageOp>>

\* the life of the component and of the requests of its camera effect
lifeVars == <<camMounted, stale, orphans>>
vars == <<proxyVars, relayVars, boardVars, clientVars, camVars, runVars, layerVars, panelVars>>

\* what a step of one part of the system leaves alone
nonProxyVars == <<relayVars, boardVars, clientVars, camVars, runVars, layerVars, panelVars>>
nonRelayVars == <<proxyVars, boardVars, clientVars, camVars, runVars, layerVars, panelVars>>
nonBoardVars == <<proxyVars, relayVars, clientVars, camVars, runVars, layerVars, panelVars>>
nonClientVars == <<proxyVars, relayVars, boardVars, camVars, runVars, layerVars, panelVars>>
nonCamVars == <<proxyVars, relayVars, boardVars, clientVars, runVars, layerVars, panelVars>>
nonRunVars == <<proxyVars, relayVars, boardVars, clientVars, camVars, layerVars, panelVars>>
nonLayerVars == <<proxyVars, relayVars, boardVars, clientVars, camVars, runVars, panelVars>>
nonPanelVars == <<proxyVars, relayVars, boardVars, clientVars, camVars, runVars, layerVars>>

-----------------------------------------------------------------------------
(* JavaScript values *)

\* a property that is absent from an object reads as undefined
Undefined == "undefined"

\* !v is false exactly for a non-empty string (the only values bodies carry here)
Truthy(v) == v # Undefined /\ v # ""

-----------------------------------------------------------------------------
(* The external service *)

\* the parsed JSON bodies the external service answers with
Jsons == [id : {Undefined, "job1"},
          status : {Undefined, "processing", "succeeded", "failed"},
          out : {"imgA", "imgB"}]

NoJson == [id |-> Undefined, status |-> Undefined, out |-> Undefined]

OkStatuses == {200, 201}
ErrStatuses == {400, 404, 500, 503}

\* fetch rejects (network failure)
ThrownReplies ==
    [thrown : {TRUE}, msg : {"fetch failed"}, status : {0}, text : {""},
     isJson : {FALSE}, json : {NoJson}]

\* a response whose ok flag is false: its body is read with text()
ErrReplies ==
    [thrown : {FALSE}, msg : {""}, status : ErrStatuses, text : {"quota", "bad input"},
     isJson : {FALSE}, json : {NoJson}]

\* a response whose ok flag is true and whose body parses as JSON
OkReplies ==
    [thrown : {FALSE}, msg : {""}, status : OkStatuses, text : {""},
     isJson : {TRUE}, json : Jsons]

\* a response whose ok flag is true and whose body is not JSON: json() throws
BadJsonReplies ==
    [thrown : {FALSE}, msg : {"Unexpected token"}, status : OkStatuses, text : {"<html>"},
     isJson : {FALSE}, json : {NoJson}]

Replies == ThrownReplies \cup ErrReplies \cup OkReplies \cup BadJsonReplies

NoReply ==
    [thrown |-> FALSE, msg |-> "", status |-> 0, text |-> "", isJson |-> FALSE,
     json |-> NoJson]

\* Response.ok
Ok(r) == r.status >= 200 /\ r.status <= 299

-----------------------------------------------------------------------------
(* Requests and responses of the routes *)

Routes == {"prompt", "stream", "oneshot"}

NoBody == [stream_id |-> Undefined, prompt |-> Undefined, image |-> Undefined,
           pipeline_id |-> Undefined]

\* the JSON bodies a browser posts; a route reads only the fields it destructures
Bodies(rt) ==
    CASE rt = "prompt" ->
           [stream_id : {Undefined, "", "s1"}, prompt : {Undefined, "", "a cat"},
            image : {Undefined, "", "data:png"}, pipeline_id : {Undefined}]
      [] rt = "stream" ->
           [stream_id : {Undefined}, prompt : {Undefined}, image : {Undefined},
            pipeline_id : {Undefined, "", "pip_SD"}]
      [] rt = "oneshot" ->
           [stream_id : {Undefined}, prompt : {Undefined, "", "a cat"},
            image : {Undefined, "", "data:png"}, pipeline_id : {Undefined}]

\* nothing was sent
NoFwd == [pipeline |-> Undefined, prompt |-> Undefined, image |-> Undefined,
          pipeline_id |-> Undefined]

\* mutant: the pipeline is chosen the wrong way round
Generation_Swapped(prompt, image) ==
    [pipeline |-> IF Truthy(image) THEN "text-to-image" ELSE "image-to-image",
     prompt |-> prompt,
     image |-> IF Truthy(image) THEN image ELSE Undefined,
     pipeline_id |-> Undefined]

\* JSON.stringify({ pipeline: image ? "image-to-image" : "text-to-image",
\*   model_id, params: { prompt, ...(image ? { image } : {}), ... } })
\* (model_id, guidance_scale and num_inference_steps are fixed values)
Generation(prompt, image) ==
    [pipeline |-> IF Truthy(image) THEN "image-to-image" ELSE "text-to-image",
     prompt |-> prompt,
     image |-> IF Truthy(image) THEN image ELSE Undefined,
     pipeline_id |-> Undefined]

\* JSON.stringify({ pipeline_id })
StreamCreation(pipeline_id) ==
    [pipeline |-> Undefined, prompt |-> Undefined, image |-> Undefined,
     pipeline_id |-> pipeline_id]

NoResp == [status |-> 0, kind |-> "none", error |-> "", data |-> NoJson]

\* NextResponse.json({ error }, { status })
ErrorResponse(message, status) ==
    [status |-> status, kind |-> "error", error |-> message, data |-> NoJson]

\* mutant: the body is dropped
JsonResponse_Empty(data) ==
    [status |-> 200, kind |-> "json", error |-> "", data |-> NoJson]

\* NextResponse.json(data): no status is passed, the response is a 200
JsonResponse(data) ==
    [status |-> 200, kind |-> "json", error |-> "", data |-> data]

\* mutant: the message of the exception is dropped
Catch_Unknown(message) == ErrorResponse("Unknown server error", 500)

\* the catch block of a route: every value thrown by fetch, json() or
\* pollForResult is an Error, answered with its message
Catch(message) == ErrorResponse(message, 500)


-----------------------------------------------------------------------------
(* The proxy routes *)

\* the attempt ceiling of pollForResult (its default parameter)
maxAttempts == 10

TimeoutMessage == "Polling timed out, result not ready"
FailedMessage == "Prompt failed to process"

\* mutant: && for ||
PromptMissing_And(b) == ~Truthy(b.stream_id) /\ ~Truthy(b.prompt)

\* if (!stream_id || !prompt)
PromptMissing(b) == ~Truthy(b.stream_id) \/ ~Truthy(b.prompt)

\* if (!pipeline_id)
StreamMissing(b) == ~Truthy(b.pipeline_id)

\* if (!prompt)
OneshotMissing(b) == ~Truthy(b.prompt)

\* mutant: the test is inverted
NeedsPolling_Inverted(initial) == Truthy(initial.id) /\ initial.status = "succeeded"

\* if (initial.id && initial.status !== "succeeded")
NeedsPolling(initial) == Truthy(initial.id) /\ initial.status # "succeeded"

\* the wait between two status requests (the default parameter of pollForResult)
interval == 3000

\* mutant: linear backoff
Delay_Backoff(k) == interval * (k + 1)

\* setTimeout(resolve, interval) in iteration k of the loop
Delay(k) == interval

\* mutant: <= for <
MoreAttempts_Inclusive(k) == k <= maxAttempts

\* the loop condition of pollForResult: i < maxAttempts
MoreAttempts(k) == k < maxAttempts

\* mutant: the upstream status is dropped
UpstreamError_As500(r) == Catch(r.text)

\* if (!response.ok) return NextResponse.json({ error: errorText }, { status: response.status })
UpstreamError(r) == ErrorResponse(r.text, r.status)

\* mutant: the upstream body is dropped
PollError_Generic(r) == Catch("Polling failed")

\* if (!check.ok) throw new Error(await check.text()), caught by the route
PollError(r) == Catch(r.text)

\* mutant: the submission's body is returned instead of the final one
PollSucceeded_Initial(data) == JsonResponse(subReply.json)

\* if (data.status === "succeeded") return data, returned by the route
PollSucceeded(data) == JsonResponse(data)

\* if (data.status === "failed") throw new Error("Prompt failed to process")
PollFailed == Catch(FailedMessage)

\* mutant: the last status body is returned when the attempts run out
PollTimedOut_ReturnsLast == JsonResponse(pollReply.json)

\* throw new Error("Polling timed out, result not ready") after the loop
PollTimedOut == Catch(TimeoutMessage)

\* a handler starts on a request when no other request is being handled
Accepting == pc \in {"idle", "responded"}

\* the state a handler starts from
Fresh(rt, b) ==
    /\ route' = rt
    /\ req' = b
    /\ i' = 0
    /\ nPolls' = 0
    /\ nWaits' = 0
    /\ subReply' = NoReply
    /\ pollReply' = NoReply
    /\ elapsed' = 0

\* return NextResponse.json(...)
Respond(r) ==
    /\ resp' = r
    /\ pc' = "responded"

\* POST of the prompt route up to its fetch of .../streams/{stream_id}/prompts
PromptPOST(b) ==
    /\ Accepting
    /\ Fresh("prompt", b)
    /\ IF PromptMissing(b)
         THEN /\ Respond(ErrorResponse(
                     "Missing required fields: stream_id and prompt are required", 400))
              /\ nSubmit' = 0
              /\ fwd' = NoFwd
         ELSE /\ resp' = NoResp
              /\ pc' = "submit"
              /\ nSubmit' = 1
              /\ fwd' = Generation(b.prompt, b.image)
    /\ UNCHANGED nonProxyVars

\* POST of the stream route up to its fetch of /v1/streams
StreamPOST(b) ==
    /\ Accepting
    /\ Fresh("stream", b)
    /\ IF StreamMissing(b)
         THEN /\ Respond(ErrorResponse("Missing pipeline_id", 400))
              /\ nSubmit' = 0
              /\ fwd' = NoFwd
         ELSE /\ resp' = NoResp
              /\ pc' = "submit"
              /\ nSubmit' = 1
              /\ fwd' = StreamCreation(b.pipeline_id)
    /\ UNCHANGED nonProxyVars

\* POST of the oneshot route up to its fetch of /v1/oneshot
OneshotPOST(b) ==
    /\ Accepting
    /\ Fresh("oneshot", b)
    /\ IF OneshotMissing(b)
         THEN /\ Respond(ErrorResponse("Missing prompt", 400))
              /\ nSubmit' = 0
              /\ fwd' = NoFwd
         ELSE /\ resp' = NoResp
              /\ pc' = "submit"
              /\ nSubmit' = 1
              /\ fwd' = Generation(b.prompt, b.image)
    /\ UNCHANGED nonProxyVars

\* the prompt route after its submission fetch settles with r; when the job is
\* still running it enters pollForResult and issues the first status request
PromptSubmitted(r) ==
    /\ pc = "submit"
    /\ route = "prompt"
    /\ subReply' = r
    /\ IF r.thrown
         THEN Respond(Catch(r.msg)) /\ UNCHANGED <<i, nPolls>>
         ELSE IF ~Ok(r)
         THEN Respond(UpstreamError(r)) /\ UNCHANGED <<i, nPolls>>
         ELSE IF ~r.isJson
         THEN Respond(Catch(r.msg)) /\ UNCHANGED <<i, nPolls>>
         ELSE IF NeedsPolling(r.json)
         THEN /\ i' = 0
              /\ nPolls' = nPolls + 1
              /\ pc' = "poll"
              /\ UNCHANGED resp
         ELSE Respond(JsonResponse(r.json)) /\ UNCHANGED <<i, nPolls>>
    /\ UNCHANGED <<route, req, nSubmit, nWaits, pollReply, fwd, elapsed, nonProxyVars>>

\* the stream route after its fetch settles with r
StreamSubmitted(r) ==
    /\ pc = "submit"
    /\ route = "stream"
    /\ subReply' = r
    /\ IF r.thrown
         THEN Respond(Catch(r.msg))
         ELSE IF ~Ok(r)
         THEN Respond(UpstreamError(r))
         ELSE IF ~r.isJson
         THEN Respond(Catch(r.msg))
         ELSE Respond(JsonResponse(r.json))
    /\ UNCHANGED <<route, req, i, nSubmit, nPolls, nWaits, pollReply, fwd, elapsed, nonProxyVars>>

\* the oneshot route after its fetch settles with r
OneshotSubmitted(r) ==
    /\ pc = "submit"
    /\ route = "oneshot"
    /\ subReply' = r
    /\ IF r.thrown
         THEN Respond(Catch(r.msg))
         ELSE IF ~Ok(r)
         THEN Respond(UpstreamError(r))
         ELSE IF ~r.isJson
         THEN Respond(Catch(r.msg))
         ELSE Respond(JsonResponse(r.json))
    /\ UNCHANGED <<route, req, i, nSubmit, nPolls, nWaits, pollReply, fwd, elapsed, nonProxyVars>>

\* pollForResult after a status fetch settles with r, up to its setTimeout
PollReplied(r) ==
    /\ pc = "poll"
    /\ pollReply' = r
    /\ IF r.thrown
         THEN Respond(Catch(r.msg)) /\ UNCHANGED <<nWaits, elapsed>>
         ELSE IF ~Ok(r)
         THEN Respond(PollError(r)) /\ UNCHANGED <<nWaits, elapsed>>
         ELSE IF ~r.isJson
         THEN Respond(Catch(r.msg)) /\ UNCHANGED <<nWaits, elapsed>>
         ELSE IF r.json.status = "succeeded"
         THEN Respond(PollSucceeded(r.json)) /\ UNCHANGED <<nWaits, elapsed>>
         ELSE IF r.json.status = "failed"
         THEN Respond(PollFailed) /\ UNCHANGED <<nWaits, elapsed>>
         ELSE /\ pc' = "sleep"
              /\ nWaits' = nWaits + 1
              /\ elapsed' = elapsed + Delay(i)
              /\ UNCHANGED resp
    /\ UNCHANGED <<route, req, i, nSubmit, nPolls, subReply, fwd, nonProxyVars>>

\* pollForResult when its setTimeout fires: i++, then the loop test; either the
\* next status request is issued or the loop ends and the timeout error is thrown
PollWake ==
    /\ pc = "sleep"
    /\ i' = i + 1
    /\ IF MoreAttempts(i + 1)
         THEN /\ nPolls' = nPolls + 1
              /\ pc' = "poll"
              /\ UNCHANGED resp
         ELSE /\ Respond(PollTimedOut)
              /\ UNCHANGED nPolls
    /\ UNCHANGED <<route, req, nSubmit, nWaits, subReply, pollReply, fwd, elapsed, nonProxyVars>>

NextProxy ==
    \/ \E b \in Bodies("prompt") : PromptPOST(b)
    \/ \E b \in Bodies("stream") : StreamPOST(b)
    \/ \E b \in Bodies("oneshot") : OneshotPOST(b)
    \/ \E r \in Replies : PromptSubmitted(r)
    \/ \E r \in Replies : StreamSubmitted(r)
    \/ \E r \in Replies : OneshotSubmitted(r)
    \/ \E r \in Replies : PollReplied(r)
    \/ PollWake

-----------------------------------------------------------------------------
(* The signaling relay *)

\* how many clients connect to the relay
NumSockets == 2

Sockets == 1 .. NumSockets

\* socket.id: Socket.IO gives every connection its own identifier
SocketId(s) == <<"sid1", "sid2", "sid3", "sid4">>[s]

\* room identifiers are strings chosen by the client and never validated, so a
\* client may send any string, the identifier of a socket included
RoomNames == {"abc", "xyz"} \cup {SocketId(s) : s \in Sockets}

NoRoom == Undefined

\* the relay is not in the middle of an emission: Node runs a handler to
\* completion, and an emission is complete when the handler that makes it ends
Quiet == lastRoom = NoRoom

\* io.on("connection"): the joinSession listener is registered on the new socket.
\* Socket.IO itself puts every socket in the room named by its own id on connect.
Connect(s) ==
    /\ Quiet
    /\ s \notin connected
    /\ connected' = connected \cup {s}
    /\ rooms' = [rooms EXCEPT ![s] = {SocketId(s)}]
    /\ joined' = [joined EXCEPT ![s] = {}]
    /\ UNCHANGED <<lastRoom, delivered, nonRelayVars>>

\* mutant: io.socketsJoin(roomId), every connected socket joins
JoinSession_All(s, roomId) ==
    /\ Quiet
    /\ s \in connected
    /\ rooms' = [t \in Sockets |-> IF t \in connected THEN rooms[t] \cup {roomId}
                                                    ELSE rooms[t]]
    /\ joined' = [joined EXCEPT ![s] = @ \cup {roomId}]
    /\ UNCHANGED <<connected, lastRoom, delivered, nonRelayVars>>

\* mutant: the join is acknowledged to the emitting socket
JoinSession_Ack(s, roomId) ==
    /\ Quiet
    /\ s \in connected
    /\ rooms' = [rooms EXCEPT ![s] = @ \cup {roomId}]
    /\ joined' = [joined EXCEPT ![s] = @ \cup {roomId}]
    /\ lastRoom' = roomId
    /\ delivered' = {s}
    /\ UNCHANGED <<connected, nonRelayVars>>

\* mutant: joining a room leaves the rooms joined before
JoinSession_Switch(s, roomId) ==
    /\ Quiet
    /\ s \in connected
    /\ rooms' = [rooms EXCEPT ![s] = {SocketId(s), roomId}]
    /\ joined' = [joined EXCEPT ![s] = @ \cup {roomId}]
    /\ UNCHANGED <<connected, lastRoom, delivered, nonRelayVars>>

\* socket.on("joinSession", (roomId) => socket.join(roomId)): nothing is emitted
JoinSession(s, roomId) ==
    /\ Quiet
    /\ s \in connected
    /\ rooms' = [rooms EXCEPT ![s] = @ \cup {roomId}]
    /\ joined' = [joined EXCEPT ![s] = @ \cup {roomId}]
    /\ UNCHANGED <<connected, lastRoom, delivered, nonRelayVars>>

\* the connection closes: Socket.IO removes the socket from all its rooms
Disconnect(s) ==
    /\ Quiet
    /\ s \in connected
    /\ connected' = connected \ {s}
    /\ rooms' = [rooms EXCEPT ![s] = {}]
    /\ joined' = [joined EXCEPT ![s] = {}]
    /\ UNCHANGED <<lastRoom, delivered, nonRelayVars>>

\* a message is emitted to the broadcast group r: it goes to the members of r
Broadcast(r) ==
    /\ Quiet
    /\ lastRoom' = r
    /\ delivered' = {s \in Sockets : r \in rooms[s]}
    /\ UNCHANGED <<connected, rooms, joined, nonRelayVars>>

\* the emission is complete
Flush ==
    /\ ~Quiet
    /\ lastRoom' = NoRoom
    /\ delivered' = {}
    /\ UNCHANGED <<connected, rooms, joined, nonRelayVars>>

NextRelay ==
    \/ \E s \in Sockets : Connect(s)
    \/ \E s \in Sockets, roomId \in RoomNames : JoinSession(s, roomId)
    \/ \E s \in Sockets : Disconnect(s)
    \/ \E r \in RoomNames : Broadcast(r)
    \/ Flush

-----------------------------------------------------------------------------
(* The board page: pages list, saveCanvasState, local storage *)

\* the room identifiers of the board pages a browser tab opens
RoomIds == {"abc", "xyz"}

\* how many identifiers generateShortId can return
NumPageIds == 2

\* generateShortId(): a random short string
ShortId(k) == <<"pg1", "pg2", "pg3", "pg4", "pg5", "pg6">>[k]

ShortIds == {ShortId(k) : k \in 1 .. NumPageIds}

\* how many drawings other than the empty one a store can hold
NumDocs == 1

DocName(k) == <<"docA", "docB", "docC", "docD">>[k]

\* the store of an editor nothing has been drawn in
EmptyDoc == "empty"

\* editor.store.getSnapshot(): the content of the store
Docs == {EmptyDoc} \cup {DocName(k) : k \in 1 .. NumDocs}

Null == "null"

\* initialPage = { id: generateShortId(), name: "Page 1", canvasData: null }
InitialPage(id) == [id |-> id, name |-> "Page 1", canvasData |-> Null]

\* mutant: one key for every room
StorageKey_Global(r) == <<"canvas-state-">>

\* `canvas-state-${roomId}`
StorageKey(r) == <<"canvas-state-", r>>

StorageKeys == {StorageKey(r) : r \in RoomIds}

\* localStorage.getItem of a key that was never set
NoItem == <<>>

\* JSON.stringify of a page: the text of an object, as its tokens
StringifyPage(p) == <<"{", p.id, p.name, p.canvasData, "}">>

RECURSIVE StringifyList(_)
StringifyList(ps) ==
    IF ps = <<>> THEN <<>> ELSE StringifyPage(Head(ps)) \o StringifyList(Tail(ps))

\* JSON.stringify(newPages): the text of an array
StringifyPages(ps) == <<"[">> \o StringifyList(ps) \o <<"]">>

ParsePage(t) == [id |-> t[2], name |-> t[3], canvasData |-> t[4]]

RECURSIVE ParseList(_)
ParseList(t) ==
    IF Len(t) < 5 THEN <<>>
    ELSE <<ParsePage(SubSeq(t, 1, 5))>> \o ParseList(SubSeq(t, 6, Len(t)))

\* JSON.parse(saved) as PageData[]
ParsePages(item) == ParseList(SubSeq(item, 2, Len(item) - 1))

\* JSON.stringify(snapshot)
StringifySnapshot(d) == <<"{", d, "}">>

\* the initializer of the pages state: the saved list if there is one
InitialPages(r, id) ==
    LET saved == storage[StorageKey(r)]
    IN  IF saved # NoItem THEN ParsePages(saved) ELSE <<InitialPage(id)>>

\* mutant: the snapshot is stored in every page
UpdatedPages_All(prevPages, activeId, snapshot) ==
    [k \in 1 .. Len(prevPages) |-> [prevPages[k] EXCEPT !.canvasData = snapshot]]

\* prevPages.map((p) => p.id === activePageId ? { ...p, canvasData: snapshot } : p)
UpdatedPages(prevPages, activeId, snapshot) ==
    [k \in 1 .. Len(prevPages) |->
        IF prevPages[k].id = activeId
        THEN [prevPages[k] EXCEPT !.canvasData = snapshot]
        ELSE prevPages[k]]

NoWritten == [some |-> FALSE, pages |-> <<>>]

\* the debounce wait of debouncedSave, in milliseconds
DebounceWait == 800

\* the step of the clock
TickMs == DebounceWait \div 2

\* how many saves can wait for an idle period at once
MaxIdle == 1

\* the source of a store change
Sources == {"user", "remote"}

\* the store tells its listeners of a change: handleStoreChange calls
\* debouncedSave for source "user", which (re)starts the debounce timer
Notify(source) ==
    IF listening /\ source = "user"
    THEN armed' = TRUE /\ sinceLast' = 0
    ELSE UNCHANGED <<armed, sinceLast>>

\* the board page is opened (or reloaded): first render of Board
OpenBoard(r, id) ==
    /\ ~open
    /\ open' = TRUE
    /\ boardRoom' = r
    /\ pages' = InitialPages(r, id)
    /\ activePageId' = id
    /\ loadPending' = TRUE
    /\ lastOp' = "open"
    /\ UNCHANGED <<lastSavedState, editorMounted, doc, persisted, storage, written,
                   effectsRan, listening, armed, sinceLast, idlePending, unsaved,
                   nonBoardVars>>

\* handleMount: the drawing surface is ready and hands over its editor, whose
\* store holds what the toolkit persisted under persistenceKey "bezalel-board".
\* When the toolkit calls onMount is its own affair: before or after the first
\* effects of Canvas.
HandleMount ==
    /\ open
    /\ ~editorMounted
    /\ editorMounted' = TRUE
    /\ doc' = persisted
    /\ lastOp' = "step"
    /\ UNCHANGED <<open, boardRoom, pages, activePageId, lastSavedState, persisted,
                   storage, written, loadPending, effectsRan, listening, armed,
                   sinceLast, idlePending, unsaved, nonBoardVars>>

\* if (!editorRef.current) return; editor.store.listen(handleStoreChange, ...)
ListenerRegistered == editorMounted

\* the effects of Canvas, run once after its first render: their dependencies
\* (editorRef, debouncedSave, handleStoreChange) never change afterwards
CanvasEffects ==
    /\ open
    /\ ~effectsRan
    /\ effectsRan' = TRUE
    /\ listening' = ListenerRegistered
    /\ IF editorMounted
       THEN armed' = TRUE /\ sinceLast' = 0
       ELSE UNCHANGED <<armed, sinceLast>>
    /\ lastOp' = "step"
    /\ UNCHANGED <<open, boardRoom, pages, activePageId, lastSavedState, editorMounted,
                   doc, persisted, storage, written, loadPending, idlePending, unsaved,
                   nonBoardVars>>

\* the effects of a render have run before the browser delivers the next event
Interactive == open /\ editorMounted /\ effectsRan

\* the user draws: a store change with source "user"
UserChange(d) ==
    /\ Interactive
    /\ d # doc
    /\ doc' = d
    /\ persisted' = d
    /\ unsaved' = TRUE
    /\ Notify("user")
    /\ lastOp' = "step"
    /\ UNCHANGED <<open, boardRoom, pages, activePageId, lastSavedState, editorMounted,
                   storage, written, loadPending, effectsRan, listening, idlePending,
                   nonBoardVars>>

\* a store change with source "remote" (the toolkit syncs tabs that share a
\* persistenceKey)
RemoteChange(d) ==
    /\ Interactive
    /\ d # doc
    /\ doc' = d
    /\ persisted' = d
    /\ Notify("remote")
    /\ lastOp' = "step"
    /\ UNCHANGED <<open, boardRoom, pages, activePageId, lastSavedState, editorMounted,
                   storage, written, loadPending, effectsRan, listening, idlePending,
                   unsaved, nonBoardVars>>

\* time passes while the debounce timer is set
Tick ==
    /\ armed
    /\ sinceLast < DebounceWait
    /\ sinceLast' = sinceLast + TickMs
    /\ lastOp' = "step"
    /\ UNCHANGED <<open, boardRoom, pages, activePageId, lastSavedState, editorMounted,
                   doc, persisted, storage, written, loadPending, effectsRan, listening,
                   armed, idlePending, unsaved, nonBoardVars>>

\* lodash.debounce invokes the function once the wait has passed since the last call
TimerDue == sinceLast >= DebounceWait

\* the debounce timer fires: the debounced function schedules save with
\* requestIdleCallback (or setTimeout(save, 0))
DebounceFire ==
    /\ armed
    /\ TimerDue
    /\ idlePending < MaxIdle
    /\ armed' = FALSE
    /\ idlePending' = IF editorMounted THEN idlePending + 1 ELSE idlePending
    /\ lastOp' = "step"
    /\ UNCHANGED <<open, boardRoom, pages, activePageId, lastSavedState, editorMounted,
                   doc, persisted, storage, written, loadPending, effectsRan, listening,
                   sinceLast, unsaved, nonBoardVars>>

\* saveCanvasState, taking the snapshot of a store that holds d
SaveCanvasState(d) ==
    /\ unsaved' = FALSE
    /\ IF ~editorMounted \/ StringifySnapshot(d) = lastSavedState
       THEN UNCHANGED <<pages, storage, written, lastSavedState, loadPending>>
       ELSE LET newPages == UpdatedPages(pages, activePageId, d)
            IN  /\ pages' = newPages
                /\ storage' = [storage EXCEPT
                                  ![StorageKey(boardRoom)] = StringifyPages(newPages)]
                /\ written' = [written EXCEPT
                                  ![boardRoom] = [some |-> TRUE, pages |-> newPages]]
                /\ lastSavedState' = StringifySnapshot(d)
                /\ loadPending' = TRUE

\* the idle callback runs save, which calls saveCanvasState
IdleSave ==
    /\ idlePending > 0
    /\ idlePending' = idlePending - 1
    /\ SaveCanvasState(doc)
    /\ lastOp' = "save"
    /\ UNCHANGED <<open, boardRoom, activePageId, editorMounted, doc, persisted,
                   effectsRan, listening, armed, sinceLast, nonBoardVars>>

\* handleEnhanceObjects after its last await: the shapes that were enhanced have
\* been replaced (none, when every one was skipped), then saveCanvasState()
HandleEnhanceObjects(d, source) ==
    /\ Interactive
    /\ doc' = d
    /\ persisted' = d
    /\ IF d # doc THEN Notify(source) ELSE UNCHANGED <<armed, sinceLast>>
    /\ SaveCanvasState(d)
    /\ lastOp' = "save"
    /\ UNCHANGED <<open, boardRoom, activePageId, editorMounted, effectsRan, listening,
                   idlePending, nonBoardVars>>

\* handleGenerateImage after its last await: createShapes, then saveCanvasState()
HandleGenerateImage(d, source) ==
    /\ Interactive
    /\ d # doc
    /\ doc' = d
    /\ persisted' = d
    /\ Notify(source)
    /\ SaveCanvasState(d)
    /\ lastOp' = "save"
    /\ UNCHANGED <<open, boardRoom, activePageId, editorMounted, effectsRan, listening,
                   idlePending, nonBoardVars>>

\* the pages that the snapshot loading effect finds for the active page
ActivePages == {k \in 1 .. Len(pages) : pages[k].id = activePageId}

\* the effect on [pages, activePageId]: loadSnapshot of the active page's canvasData
LoadEffect(source) ==
    /\ open
    /\ loadPending
    /\ loadPending' = FALSE
    /\ IF editorMounted /\ ActivePages # {}
          /\ pages[CHOOSE k \in ActivePages : \A j \in ActivePages : k <= j].canvasData
                 \notin {Null, doc}
       THEN LET page == pages[CHOOSE k \in ActivePages : \A j \in ActivePages : k <= j]
            IN  /\ doc' = page.canvasData
                /\ persisted' = page.canvasData
                /\ Notify(source)
       ELSE UNCHANGED <<doc, persisted, armed, sinceLast>>
    /\ lastOp' = "step"
    /\ UNCHANGED <<open, boardRoom, pages, activePageId, lastSavedState, editorMounted,
                   storage, written, effectsRan, listening, idlePending, unsaved,
                   nonBoardVars>>

\* the tab is closed or reloaded: only what the browser stores survives
CloseBoard ==
    /\ open
    /\ open' = FALSE
    /\ boardRoom' = Undefined
    /\ pages' = <<>>
    /\ activePageId' = Undefined
    /\ lastSavedState' = Null
    /\ editorMounted' = FALSE
    /\ doc' = EmptyDoc
    /\ loadPending' = FALSE
    /\ effectsRan' = FALSE
    /\ listening' = FALSE
    /\ armed' = FALSE
    /\ sinceLast' = 0
    /\ idlePending' = 0
    /\ unsaved' = FALSE
    /\ lastOp' = "step"
    /\ UNCHANGED <<persisted, storage, written, nonBoardVars>>

NextBoard ==
    \/ \E r \in RoomIds, id \in ShortIds : OpenBoard(r, id)
    \/ HandleMount
    \/ CanvasEffects
    \/ \E d \in Docs : UserChange(d)
    \/ \E d \in Docs : RemoteChange(d)
    \/ Tick
    \/ DebounceFire
    \/ IdleSave
    \/ \E d \in Docs, source \in Sources : HandleEnhanceObjects(d, source)
    \/ \E d \in Docs, source \in Sources : HandleGenerateImage(d, source)
    \/ \E source \in Sources : LoadEffect(source)
    \/ CloseBoard

-----------------------------------------------------------------------------
(* The socket of a board or viewer page *)

PageKinds == {"board", "viewer"}

\* reconnectionAttempts of the board's socket (the viewer's is unlimited)
reconnectionAttempts == 10

\* how many times a socket connects while its page is open
MaxConnects == 3

JoinSessionEvent(r) == [event |-> "joinSession", payload |-> r]

\* mutant: the connect listener also sends the drawing
ConnectEmits_Snapshot(r) == {JoinSessionEvent(r), [event |-> "snapshot", payload |-> r]}

\* socket.on("connect", () => socket.emit("joinSession", roomId))
ConnectEmits(r) == {JoinSessionEvent(r)}

\* the socket effect of Board or View: io(url, options), listeners registered
OpenPage(kind, r) ==
    /\ sockPage = "none"
    /\ sockPage' = kind
    /\ sockRoom' = r
    /\ sockState' = "connecting"
    /\ UNCHANGED <<attempts, emitted, nConnects, nEmits, nonClientVars>>

\* the socket fires "connect", on the first connection and on every reconnection
SocketConnect ==
    /\ sockState \in {"connecting", "reconnecting"}
    /\ nConnects < MaxConnects
    /\ sockState' = "connected"
    /\ attempts' = 0
    /\ nConnects' = nConnects + 1
    /\ emitted' = emitted \cup ConnectEmits(sockRoom)
    /\ nEmits' = nEmits + Cardinality(ConnectEmits(sockRoom))
    /\ UNCHANGED <<sockPage, sockRoom, nonClientVars>>

\* the manager gives up after reconnectionAttempts failed reconnections
GivesUp == sockPage = "board" /\ attempts >= reconnectionAttempts

\* the socket fires "connect_error": the listener logs (and the viewer shows) the
\* error; the manager schedules a reconnection unless it gives up
ConnectError ==
    /\ sockState \in {"connecting", "reconnecting"}
    /\ IF GivesUp
       THEN sockState' = "failed" /\ UNCHANGED attempts
       ELSE /\ sockState' = "reconnecting"
            /\ attempts' = IF sockPage = "board" THEN attempts + 1 ELSE attempts
    /\ UNCHANGED <<sockPage, sockRoom, emitted, nConnects, nEmits, nonClientVars>>

\* the connection is lost: the manager starts reconnecting
ConnectionLost ==
    /\ sockState = "connected"
    /\ sockState' = "reconnecting"
    /\ UNCHANGED <<sockPage, sockRoom, attempts, emitted, nConnects, nEmits,
                   nonClientVars>>

\* the cleanup of the socket effect: socket.disconnect()
ClosePage ==
    /\ sockPage # "none"
    /\ sockPage' = "none"
    /\ sockRoom' = Undefined
    /\ sockState' = "closed"
    /\ attempts' = 0
    /\ emitted' = {}
    /\ nConnects' = 0
    /\ nEmits' = 0
    /\ UNCHANGED nonClientVars

NextClient ==
    \/ \E kind \in PageKinds, r \in RoomIds : OpenPage(kind, r)
    \/ SocketConnect
    \/ ConnectError
    \/ ConnectionLost
    \/ ClosePage

-----------------------------------------------------------------------------
(* The floating camera window *)

Max(a, b) == IF a >= b THEN a ELSE b

Min(a, b) == IF a <= b THEN a ELSE b

\* Math.round(n / d) for n >= 0, d > 0
RoundDiv(n, d) == (2 * n + d) \div (2 * d)

\* window.innerWidth, window.innerHeight of the viewports the window is shown in
Viewports == {[w |-> 160, h |-> 120], [w |-> 1500, h |-> 800], [w |-> 2000, h |-> 1200]}

\* the margin the window keeps from the edges of the viewport
Margin == 24

\* updateSize: w = min(max(innerWidth * 0.2, 200), 360), h = w * 9 / 16, both
\* rounded; computed on five times the width to stay in the integers
ComputedSize(vp) ==
    LET w5 == Min(Max(vp.w, 5 * 200), 5 * 360)
    IN  [width |-> RoundDiv(w5, 5), height |-> RoundDiv(9 * w5, 5 * 16)]

\* handleResize: the bottom right corner
DefaultPosition(vp, sz) ==
    [x |-> vp.w - sz.width - Margin, y |-> vp.h - sz.height - Margin]

\* mutant: the lower limit is applied first
Clamp_LowerFirst(v, hi) == Min(Max(0, v), hi)

\* Math.max(0, Math.min(v, hi))
Clamp(v, hi) == Max(0, Min(v, hi))

\* onPointerUp: the window snaps to the corner nearest to its centre
SnapPosition(vp, sz, pos) ==
    [x |-> IF 2 * pos.x + sz.width < vp.w THEN Margin ELSE vp.w - sz.width - Margin,
     y |-> IF 2 * pos.y + sz.height < vp.h THEN Margin ELSE vp.h - sz.height - Margin]

\* where a pointer is, in client coordinates
PointerXs == {-100, 60, 900, 2500}

PointerYs == {-100, 60, 500, 1500}

\* where in the window the pointer goes down, relative to its top left corner
GrabPoints == {[x |-> 0, y |-> 0], [x |-> 100, y |-> 50]}

\* the window is resized: updateSize sets the size, and the effect on [size]
\* puts the window back at its default position
Resize(vp) ==
    /\ camMounted
    /\ vp # viewport
    /\ viewport' = vp
    /\ size' = ComputedSize(vp)
    /\ position' = DefaultPosition(vp, ComputedSize(vp))
    /\ lastCamOp' = "resize"
    /\ UNCHANGED <<dragging, dragOffset, audioOn, videoOn, stream, audioEnabled,
                   videoEnabled, lifeVars, nonCamVars>>

\* onPointerDown: dragOffset is the pointer relative to the window's rectangle
OnPointerDown(g) ==
    /\ camMounted
    /\ dragging' = TRUE
    /\ dragOffset' = g
    /\ lastCamOp' = "down"
    /\ UNCHANGED <<viewport, size, position, audioOn, videoOn, stream, audioEnabled,
                   videoEnabled, lifeVars, nonCamVars>>

\* onPointerMove
OnPointerMove(px, py) ==
    /\ camMounted
    /\ IF ~dragging
       THEN UNCHANGED position
       ELSE position' = [x |-> Clamp(px - dragOffset.x, viewport.w - size.width),
                         y |-> Clamp(py - dragOffset.y, viewport.h - size.height)]
    /\ lastCamOp' = "move"
    /\ UNCHANGED <<viewport, size, dragging, dragOffset, audioOn, videoOn, stream,
                   audioEnabled, videoEnabled, lifeVars, nonCamVars>>

\* onPointerUp
OnPointerUp ==
    /\ camMounted
    /\ dragging' = FALSE
    /\ position' = SnapPosition(viewport, size, position)
    /\ lastCamOp' = "up"
    /\ UNCHANGED <<viewport, size, dragOffset, audioOn, videoOn, stream, audioEnabled,
                   videoEnabled, lifeVars, nonCamVars>>

\* streamRef.current?.getAudioTracks(): there are tracks once a stream was stored
TracksReachable == stream \in {"live", "restarting"}

\* setAudioOn((v) => !v) and the effect on [audioOn]
ToggleAudio ==
    /\ camMounted
    /\ audioOn' = ~audioOn
    /\ audioEnabled' = IF TracksReachable THEN ~audioOn ELSE audioEnabled
    /\ lastCamOp' = "audio"
    /\ UNCHANGED <<viewport, size, position, dragging, dragOffset, videoOn, stream,
                   videoEnabled, lifeVars, nonCamVars>>

\* setVideoOn((v) => !v) and the effect on [videoOn]
ToggleVideo ==
    /\ camMounted
    /\ videoOn' = ~videoOn
    /\ videoEnabled' = IF TracksReachable THEN ~videoOn ELSE videoEnabled
    /\ lastCamOp' = "video"
    /\ UNCHANGED <<viewport, size, position, dragging, dragOffset, audioOn, stream,
                   audioEnabled, lifeVars, nonCamVars>>

\* getUserMedia resolves: streamRef.current = s; the tracks of a new stream are
\* enabled
StreamAcquired ==
    /\ camMounted
    /\ stream \in {"pending", "restarting"}
    /\ stream' = "live"
    /\ audioEnabled' = TRUE
    /\ videoEnabled' = TRUE
    /\ lastCamOp' = "acquired"
    /\ UNCHANGED <<viewport, size, position, dragging, dragOffset, audioOn, videoOn,
                   lifeVars, nonCamVars>>

\* getUserMedia rejects: the error is logged
StreamRefused ==
    /\ camMounted
    /\ stream \in {"pending", "restarting"}
    /\ stream' = IF stream = "pending" THEN "refused" ELSE "stopped"
    /\ lastCamOp' = "refused"
    /\ UNCHANGED <<viewport, size, position, dragging, dragOffset, audioOn, videoOn,
                   audioEnabled, videoEnabled, lifeVars, nonCamVars>>

\* how many requests and unreachable streams are followed
MaxStale == 1

\* onStateChange changes (the board recreates it when the prompt is edited): the
\* cleanup of the camera effect sets mounted = false for the request it made and
\* stops the tracks of the stream in streamRef; the effect then asks for a new
\* stream
CameraRestart ==
    /\ camMounted
    /\ IF stream \in {"pending", "restarting"}
       THEN /\ stale + orphans < MaxStale
            /\ stale' = stale + 1
            /\ UNCHANGED stream
       ELSE /\ stream' = IF stream = "refused" THEN "pending" ELSE "restarting"
            /\ UNCHANGED stale
    /\ lastCamOp' = "restart"
    /\ UNCHANGED <<viewport, size, position, dragging, dragOffset, audioOn, videoOn,
                   audioEnabled, videoEnabled, camMounted, orphans, nonCamVars>>

\* getUserMedia resolves for an effect that was cleaned up: if (!mounted) return
\* drops the stream as it is, its tracks live
StaleResolved ==
    /\ stale > 0
    /\ stale' = stale - 1
    /\ orphans' = orphans + 1
    /\ lastCamOp' = "late"
    /\ UNCHANGED <<viewport, size, position, dragging, dragOffset, audioOn, videoOn,
                   stream, audioEnabled, videoEnabled, camMounted, nonCamVars>>

\* getUserMedia rejects for an effect that was cleaned up
StaleRefused ==
    /\ stale > 0
    /\ stale' = stale - 1
    /\ lastCamOp' = "late"
    /\ UNCHANGED <<viewport, size, position, dragging, dragOffset, audioOn, videoOn,
                   stream, audioEnabled, videoEnabled, camMounted, orphans, nonCamVars>>

\* the component unmounts: the cleanup of the camera effect sets mounted = false
\* and stops the tracks of the stream in streamRef, if there is one; the state of
\* the component is gone
Unmount ==
    /\ camMounted
    /\ stream \in {"pending", "restarting"} => stale + orphans < MaxStale
    /\ camMounted' = FALSE
    /\ stale' = IF stream \in {"pending", "restarting"} THEN stale + 1 ELSE stale
    /\ stream' = IF stream \in {"live", "stopped", "restarting"} THEN "stopped" ELSE "none"
    /\ dragging' = FALSE
    /\ position' = DefaultPosition(viewport, size)
    /\ dragOffset' = [x |-> 0, y |-> 0]
    /\ audioOn' = TRUE
    /\ videoOn' = TRUE
    /\ audioEnabled' = TRUE
    /\ videoEnabled' = TRUE
    /\ lastCamOp' = "unmount"
    /\ UNCHANGED <<viewport, size, orphans, nonCamVars>>

\* a FloatingCam is mounted again: fresh state, and the camera effect asks for a
\* stream
Mount ==
    /\ ~camMounted
    /\ camMounted' = TRUE
    /\ stream' = "pending"
    /\ lastCamOp' = "mount"
    /\ UNCHANGED <<viewport, size, position, dragging, dragOffset, audioOn, videoOn,
                   audioEnabled, videoEnabled, stale, orphans, nonCamVars>>

NextCam ==
    \/ \E vp \in Viewports : Resize(vp)
    \/ \E g \in GrabPoints : OnPointerDown(g)
    \/ \E px \in PointerXs, py \in PointerYs : OnPointerMove(px, py)
    \/ OnPointerUp
    \/ ToggleAudio
    \/ ToggleVideo
    \/ StreamAcquired
    \/ StreamRefused
    \/ CameraRestart
    \/ StaleResolved
    \/ StaleRefused
    \/ Unmount
    \/ Mount

-----------------------------------------------------------------------------
(* Enhancement and generation runs of the board page *)

\* what the user types into a prompt field
Prompts == {"", " ", "glow"}

\* String.prototype.trim
Trim(v) == IF v = " " THEN "" ELSE v

\* how many runs of one kind are followed at once
MaxRuns == 2

\* the paths by which a run leaves its try block
ExitPaths == {"success", "missing result", "thrown"}

\* handleEnhanceVideo passes its checks and reaches setIsEnhancing(true)
EnhanceStarts(prompt, hasStream) == editorReady /\ Trim(prompt) # "" /\ hasStream

\* handleEnhanceVideo up to its first await, called with the prompt and the
\* stream reference of the render it was created in
HandleEnhanceVideo(prompt, hasStream) ==
    IF EnhanceStarts(prompt, hasStream)
    THEN isEnhancing' = TRUE /\ enhRuns' = enhRuns + 1
    ELSE UNCHANGED <<isEnhancing, enhRuns>>

\* handleCamStateChange(stream, enhanced), created with the prompt of its render
HandleCamStateChange(hasStream, enhanced, prompt) ==
    /\ videoStream' = hasStream
    /\ IF enhanced /\ Trim(prompt) # ""
       THEN HandleEnhanceVideo(prompt, hasStream)
       ELSE UNCHANGED <<isEnhancing, enhRuns>>

\* handleMount
EditorReady ==
    /\ ~editorReady
    /\ editorReady' = TRUE
    /\ UNCHANGED <<aiPrompt, generatePrompt, useEnhanced, camStream, videoStream,
                   isEnhancing, isGenerating, enhRuns, genRuns, lastExit, nonRunVars>>

\* the user edits the enhancement prompt: handleCamStateChange is created anew
\* (its dependency is aiPrompt), so the effect of the camera window on
\* [useEnhanced, onStateChange] calls it
SetAiPrompt(v) ==
    /\ v # aiPrompt
    /\ enhRuns < MaxRuns
    /\ aiPrompt' = v
    /\ HandleCamStateChange(camStream, useEnhanced, v)
    /\ UNCHANGED <<editorReady, generatePrompt, useEnhanced, camStream, isGenerating,
                   genRuns, lastExit, nonRunVars>>

\* the user edits the generation prompt
SetGeneratePrompt(v) ==
    /\ v # generatePrompt
    /\ generatePrompt' = v
    /\ UNCHANGED <<editorReady, aiPrompt, useEnhanced, camStream, videoStream,
                   isEnhancing, isGenerating, enhRuns, genRuns, lastExit, nonRunVars>>

\* the enhancement button of the camera window: setUseEnhanced((v) => !v), then
\* the effect on [useEnhanced, onStateChange] calls onStateChange
ToggleUseEnhanced ==
    /\ enhRuns < MaxRuns
    /\ useEnhanced' = ~useEnhanced
    /\ HandleCamStateChange(camStream, ~useEnhanced, aiPrompt)
    /\ UNCHANGED <<editorReady, aiPrompt, generatePrompt, camStream, isGenerating,
                   genRuns, lastExit, nonRunVars>>

\* getUserMedia resolves in the camera window: onStateChange?.(s, useEnhanced)
CamStreamAcquired ==
    /\ ~camStream
    /\ enhRuns < MaxRuns
    /\ camStream' = TRUE
    /\ HandleCamStateChange(TRUE, useEnhanced, aiPrompt)
    /\ UNCHANGED <<editorReady, aiPrompt, generatePrompt, useEnhanced, isGenerating,
                   genRuns, lastExit, nonRunVars>>

\* the enhancement button of the header, disabled={!aiPrompt.trim() || isEnhancing}
ClickEnhance ==
    /\ Trim(aiPrompt) # ""
    /\ ~isEnhancing
    /\ enhRuns < MaxRuns
    /\ HandleEnhanceVideo(aiPrompt, videoStream)
    /\ UNCHANGED <<editorReady, aiPrompt, generatePrompt, useEnhanced, camStream,
                   videoStream, isGenerating, genRuns, lastExit, nonRunVars>>

\* the generation button, disabled={!generatePrompt.trim() || isGenerating}:
\* handleGenerateVideo up to its first await
ClickGenerate ==
    /\ Trim(generatePrompt) # ""
    /\ ~isGenerating
    /\ genRuns < MaxRuns
    /\ IF editorReady /\ videoStream
       THEN isGenerating' = TRUE /\ genRuns' = genRuns + 1
       ELSE UNCHANGED <<isGenerating, genRuns>>
    /\ UNCHANGED <<editorReady, aiPrompt, generatePrompt, useEnhanced, camStream,
                   videoStream, isEnhancing, enhRuns, lastExit, nonRunVars>>

\* a run of handleEnhanceVideo leaves its try block: finally setIsEnhancing(false)
EnhanceExit(path) ==
    /\ enhRuns > 0
    /\ enhRuns' = enhRuns - 1
    /\ isEnhancing' = FALSE
    /\ lastExit' = path
    /\ UNCHANGED <<editorReady, aiPrompt, generatePrompt, useEnhanced, camStream,
                   videoStream, isGenerating, genRuns, nonRunVars>>

\* a run of handleGenerateVideo leaves its try block: finally setIsGenerating(false)
GenerateExit(path) ==
    /\ genRuns > 0
    /\ genRuns' = genRuns - 1
    /\ isGenerating' = FALSE
    /\ lastExit' = path
    /\ UNCHANGED <<editorReady, aiPrompt, generatePrompt, useEnhanced, camStream,
                   videoStream, isEnhancing, enhRuns, nonRunVars>>

NextRuns ==
    \/ EditorReady
    \/ \E v \in Prompts : SetAiPrompt(v)
    \/ \E v \in Prompts : SetGeneratePrompt(v)
    \/ ToggleUseEnhanced
    \/ CamStreamAcquired
    \/ ClickEnhance
    \/ ClickGenerate
    \/ \E path \in ExitPaths : EnhanceExit(path)
    \/ \E path \in ExitPaths : GenerateExit(path)

-----------------------------------------------------------------------------
(* The layers panel *)

ShapeIds == {"shape:a", "shape:b"}

\* where the user puts and drags shapes
ShapeXs == {0, 10}

ShapeYs == {5, 7}

\* the x of a hidden shape
HiddenX == 0 - 99999

\* an optional number of the shape's meta: undefined, or a value
NoCoord == [def |-> FALSE, v |-> 0]

Coord(n) == [def |-> TRUE, v |-> n]

\* a ?? b
Coalesce(a, b) == IF a.def THEN a.v ELSE b

NoShape ==
    [exists |-> FALSE, x |-> 0, y |-> 0, hidden |-> FALSE,
     originalX |-> NoCoord, originalY |-> NoCoord]

NoPosition == [x |-> 0, y |-> 0]

\* handleShapeCreate: a shape created without meta.name gets hidden: false and
\* originalX, originalY set to where it is created; a named shape is left as is
CreatedShape(x, y, named) ==
    [exists |-> TRUE, x |-> x, y |-> y, hidden |-> FALSE,
     originalX |-> IF named THEN NoCoord ELSE Coord(x),
     originalY |-> IF named THEN NoCoord ELSE Coord(y)]

\* a shape is created
CreateShape(id, x, y, named) ==
    /\ ~shapes[id].exists
    /\ shapes' = [shapes EXCEPT ![id] = CreatedShape(x, y, named)]
    /\ selBefore' = {}
    /\ lastLayerOp' = "create"
    /\ UNCHANGED <<selection, shownAt, nonLayerVars>>

\* the user drags a visible shape
MoveShape(id, x, y) ==
    /\ shapes[id].exists
    /\ ~shapes[id].hidden
    /\ <<x, y>> # <<shapes[id].x, shapes[id].y>>
    /\ shapes' = [shapes EXCEPT ![id].x = x, ![id].y = y]
    /\ selBefore' = {}
    /\ lastLayerOp' = "move"
    /\ UNCHANGED <<selection, shownAt, nonLayerVars>>

\* the user selects shapes
SelectShapes(sel) ==
    /\ sel # selection
    /\ \A id \in sel : shapes[id].exists
    /\ selection' = sel
    /\ selBefore' = {}
    /\ lastLayerOp' = "select"
    /\ UNCHANGED <<shapes, shownAt, nonLayerVars>>

\* the user deletes a shape
DeleteShape(id) ==
    /\ shapes[id].exists
    /\ shapes' = [shapes EXCEPT ![id] = NoShape]
    /\ selection' = selection \ {id}
    /\ shownAt' = [shownAt EXCEPT ![id] = NoPosition]
    /\ selBefore' = {}
    /\ lastLayerOp' = "delete"
    /\ UNCHANGED nonLayerVars

\* the update toggleVisibility passes to editor.updateShapes (an undefined x or
\* y leaves the coordinate as it is)
ToggledShape(shape) ==
    LET newHidden == ~shape.hidden
    IN  [exists |-> TRUE,
         hidden |-> newHidden,
         originalX |-> IF newHidden THEN Coord(Coalesce(shape.originalX, shape.x))
                                    ELSE shape.originalX,
         originalY |-> IF newHidden THEN Coord(Coalesce(shape.originalY, shape.y))
                                    ELSE shape.originalY,
         x |-> IF newHidden THEN HiddenX ELSE Coalesce(shape.originalX, shape.x),
         y |-> IF newHidden THEN Coalesce(shape.originalY, shape.y)
                            ELSE Coalesce(shape.originalY, shape.y)]

\* mutant: hiding a layer clears the selection
SelectionAfterToggle_Cleared(sel, id, newHidden) == IF newHidden THEN {} ELSE sel

\* if (newHidden) editor.setSelectedShapes(selected.filter((selId) => selId !== id))
SelectionAfterToggle(sel, id, newHidden) == IF newHidden THEN sel \ {id} ELSE sel

\* toggleVisibility(id)
ToggleVisibility(id) ==
    /\ shapes[id].exists
    /\ shapes' = [shapes EXCEPT ![id] = ToggledShape(shapes[id])]
    /\ selection' = SelectionAfterToggle(selection, id, ~shapes[id].hidden)
    /\ shownAt' = [shownAt EXCEPT ![id] = IF shapes[id].hidden THEN NoPosition
                                           ELSE [x |-> shapes[id].x, y |-> shapes[id].y]]
    /\ selBefore' = selection
    /\ lastLayerOp' = "toggle"
    /\ UNCHANGED nonLayerVars

NextLayers ==
    \/ \E id \in ShapeIds, x \in ShapeXs, y \in ShapeYs, named \in BOOLEAN :
          CreateShape(id, x, y, named)
    \/ \E id \in ShapeIds, x \in ShapeXs, y \in ShapeYs : MoveShape(id, x, y)
    \/ \E sel \in SUBSET ShapeIds : SelectShapes(sel)
    \/ \E id \in ShapeIds : DeleteShape(id)
    \/ \E id \in ShapeIds : ToggleVisibility(id)

-----------------------------------------------------------------------------
(* The earlier Board: a pages list with add, rename and delete *)

\* how many pages a list holds at most
MaxPages == 2

\* `Page ${pages.length + 1}`
PageName(n) == <<"Page 1", "Page 2", "Page 3", "Page 4">>[n]

\* the names the user types when renaming
NewNames == {" ", "Notes"}

\* the ids of a list of pages
IdsOf(ps) == {ps[k].id : k \in 1 .. Len(ps)}

\* generateShortId(): an id no page of the list has
FreshId(ps) ==
    ShortId(CHOOSE k \in 1 .. 2 * MaxPages :
                /\ ShortId(k) \notin IdsOf(ps)
                /\ \A j \in 1 .. k - 1 : ShortId(j) \in IdsOf(ps))

\* the ids generateShortId() gives in this model
PanelIds == {ShortId(k) : k \in 1 .. 2 * MaxPages}

\* JSON.stringify(activePage.canvasData)
StringifyCanvasData(c) == IF c = Null THEN <<"null">> ELSE StringifySnapshot(c)

\* prev.map((p) => (p.id === id ? { ...p, name: newName } : p))
RenamedPages(prev, id, newName) ==
    [k \in 1 .. Len(prev) |->
        IF prev[k].id = id THEN [prev[k] EXCEPT !.name = newName] ELSE prev[k]]

\* prev.filter((p) => p.id !== id)
RemainingPages(prev, id) == SelectSeq(prev, LAMBDA p : p.id # id)

\* the state is what the last render showed: no update is queued
Rendered ==
    /\ queuedPages = renderedPages
    /\ queuedActive = renderedActive
    /\ updaterActive = Null
    /\ ~updaterThrows

\* handleMount of Canvas: editorRef.current = editor
PanelMount ==
    /\ ~crashed
    /\ ~panelEditor
    /\ panelEditor' = TRUE
    /\ lastPageOp' = "mount"
    /\ UNCHANGED <<renderedPages, renderedActive, queuedPages, queuedActive,
                   updaterActive, updaterThrows, crashed, panelDoc, panelLastSaved,
                   panelListening, nonPanelVars>>

\* saveCanvasState with the given activePageId in its closure, called when the
\* store holds d and lastSavedState.current is saved, on the queued list ps: the
\* list and the lastSavedState.current it leaves
SavedPages(ps, activeId, d, saved) ==
    IF ~panelEditor \/ StringifySnapshot(d) = saved
    THEN ps
    ELSE UpdatedPages(ps, activeId, d)

SavedState(d, saved) ==
    IF ~panelEditor \/ StringifySnapshot(d) = saved THEN saved ELSE StringifySnapshot(d)

\* the user draws; the store listener of Canvas, once registered, calls the
\* saveCanvasState of the last render
PanelDraw(d) ==
    /\ ~crashed
    /\ panelEditor
    /\ d # panelDoc
    /\ panelDoc' = d
    /\ IF panelListening
       THEN /\ queuedPages' = SavedPages(queuedPages, renderedActive, d, panelLastSaved)
            /\ panelLastSaved' = SavedState(d, panelLastSaved)
       ELSE UNCHANGED <<queuedPages, panelLastSaved>>
    /\ lastPageOp' = "draw"
    /\ UNCHANGED <<renderedPages, renderedActive, queuedActive, updaterActive,
                   updaterThrows, crashed, panelEditor, panelListening, nonPanelVars>>

\* setPages((prev) => [...prev, newPage])
AddedPages(prev, newPage) == Append(prev, newPage)

\* handleAddPage: the page is queued and made active, lastSavedState.current is
\* reset, the store is cleared, and the saveCanvasState of the last render is
\* called (by the store listener, if registered, and by the handler)
HandleAddPage ==
    /\ ~crashed
    /\ Len(queuedPages) < MaxPages
    /\ LET newPage == [id |-> FreshId(queuedPages \o renderedPages),
                       name |-> PageName(Len(renderedPages) + 1),
                       canvasData |-> Null]
           cleared == IF panelEditor THEN EmptyDoc ELSE panelDoc
       IN  /\ queuedPages' = SavedPages(AddedPages(queuedPages, newPage), renderedActive,
                                        cleared, Null)
           /\ queuedActive' = newPage.id
           /\ panelDoc' = cleared
           /\ panelLastSaved' = SavedState(cleared, Null)
    /\ lastPageOp' = "add"
    /\ UNCHANGED <<renderedPages, renderedActive, updaterActive, updaterThrows, crashed,
                   panelEditor, panelListening, nonPanelVars>>

\* handleRenamePage(id, newName), for a page that is shown
HandleRenamePage(id, newName) ==
    /\ ~crashed
    /\ id \in IdsOf(renderedPages)
    /\ IF Trim(newName) = ""
       THEN UNCHANGED queuedPages
       ELSE queuedPages' = RenamedPages(queuedPages, id, newName)
    /\ lastPageOp' = "rename"
    /\ UNCHANGED <<renderedPages, renderedActive, queuedActive, updaterActive,
                   updaterThrows, crashed, panelEditor, panelDoc, panelLastSaved,
                   panelListening, nonPanelVars>>

\* if (pages.length === 1) { toast.error("Cannot delete the last page."); return; }
DeleteRejected == Len(renderedPages) = 1

\* handleDeletePage(id): the updater filters the queued list and, when the page
\* shown as active is the one deleted, makes remaining[0] active and resets
\* lastSavedState.current while rendering (and throws when nothing remains);
\* the request is for a page that is shown
HandleDeletePage(id) ==
    /\ ~crashed
    /\ id \in IdsOf(renderedPages)
    /\ IF DeleteRejected
       THEN UNCHANGED <<queuedPages, updaterActive, updaterThrows>>
       ELSE LET remaining == RemainingPages(queuedPages, id)
            IN  /\ queuedPages' = remaining
                /\ IF renderedActive # id
                   THEN UNCHANGED <<updaterActive, updaterThrows>>
                   ELSE IF remaining = <<>>
                   THEN updaterThrows' = TRUE /\ UNCHANGED updaterActive
                   ELSE updaterActive' = remaining[1].id /\ UNCHANGED updaterThrows
    /\ lastPageOp' = "delete"
    /\ UNCHANGED <<renderedPages, renderedActive, queuedActive, crashed, panelEditor,
                   panelDoc, panelLastSaved, panelListening, nonPanelVars>>

\* the pages of a list with the given id
PagesWithId(ps, id) == {k \in 1 .. Len(ps) : ps[k].id = id}

\* editor.createShapes([...]): the store with the initial rectangle
InitialShapes == "rect"

\* React renders: the queued updates become the state the handlers read. When
\* activePageId changed and the editor is set, the effects of Canvas run again
\* (the initial rectangle is created in an empty store, saveCanvasState is
\* called, the store listener is registered), and then the effect of Board on
\* [activePageId] loads the canvasData of the page that became active
Render ==
    /\ ~crashed
    /\ ~Rendered
    /\ LET newActive == IF updaterActive # Null THEN updaterActive ELSE queuedActive
           saved0 == IF updaterActive # Null THEN Null ELSE panelLastSaved
           runs == ~updaterThrows /\ newActive # renderedActive /\ panelEditor
           doc1 == IF runs /\ panelDoc = EmptyDoc THEN InitialShapes ELSE panelDoc
           pages1 == IF runs THEN SavedPages(queuedPages, newActive, doc1, saved0)
                             ELSE queuedPages
           saved1 == IF runs THEN SavedState(doc1, saved0) ELSE saved0
           found == PagesWithId(queuedPages, newActive)
           canvasData == queuedPages[CHOOSE k \in found : TRUE].canvasData
           loads == runs /\ found # {} /\ StringifyCanvasData(canvasData) # saved1
           doc2 == IF ~loads THEN doc1 ELSE IF canvasData = Null THEN EmptyDoc ELSE canvasData
           pages2 == IF loads /\ doc2 # doc1
                     THEN SavedPages(pages1, newActive, doc2, saved1)
                     ELSE pages1
           saved2 == IF ~loads THEN saved1
                     ELSE IF canvasData = Null THEN Null ELSE StringifyCanvasData(canvasData)
       IN  /\ crashed' = updaterThrows
           /\ renderedPages' = queuedPages
           /\ renderedActive' = newActive
           /\ queuedActive' = newActive
           /\ queuedPages' = pages2
           /\ panelDoc' = doc2
           /\ panelLastSaved' = saved2
           /\ panelListening' = (panelListening \/ runs)
    /\ updaterActive' = Null
    /\ updaterThrows' = FALSE
    /\ lastPageOp' = "render"
    /\ UNCHANGED <<panelEditor, nonPanelVars>>

NextPanel ==
    \/ PanelMount
    \/ \E d \in Docs : PanelDraw(d)
    \/ HandleAddPage
    \/ \E id \in PanelIds, newName \in NewNames : HandleRenamePage(id, newName)
    \/ \E id \in PanelIds : HandleDeletePage(id)
    \/ Render

-----------------------------------------------------------------------------
(* Specifications *)

Init ==
    /\ route = "none"
    /\ pc = "idle"
    /\ req = NoBody
    /\ i = 0
    /\ resp = NoResp
    /\ nSubmit = 0
    /\ nPolls = 0
    /\ nWaits = 0
    /\ subReply = NoReply
    /\ pollReply = NoReply
    /\ fwd = NoFwd
    /\ elapsed = 0
    /\ connected = {}
    /\ rooms = [s \in Sockets |-> {}]
    /\ joined = [s \in Sockets |-> {}]
    /\ lastRoom = NoRoom
    /\ delivered = {}
    /\ open = FALSE
    /\ boardRoom = Undefined
    /\ pages = <<>>
    /\ activePageId = Undefined
    /\ lastSavedState = Null
    /\ editorMounted = FALSE
    /\ doc = EmptyDoc
    /\ persisted = EmptyDoc
    /\ storage = [k \in StorageKeys |-> NoItem]
    /\ written = [r \in RoomIds |-> NoWritten]
    /\ loadPending = FALSE
    /\ effectsRan = FALSE
    /\ listening = FALSE
    /\ armed = FALSE
    /\ sinceLast = 0
    /\ idlePending = 0
    /\ unsaved = FALSE
    /\ lastOp = "none"
    /\ sockPage = "none"
    /\ sockRoom = Undefined
    /\ sockState = "closed"
    /\ attempts = 0
    /\ emitted = {}
    /\ nConnects = 0
    /\ nEmits = 0
    /\ viewport = [w |-> 1500, h |-> 800]
    /\ size = ComputedSize(viewport)
    /\ position = DefaultPosition(viewport, size)
    /\ dragging = FALSE
    /\ dragOffset = [x |-> 0, y |-> 0]
    /\ audioOn = TRUE
    /\ videoOn = TRUE
    /\ stream = "pending"
    /\ audioEnabled = TRUE
    /\ videoEnabled = TRUE
    /\ lastCamOp = "none"
    /\ camMounted = TRUE
    /\ stale = 0
    /\ orphans = 0
    /\ editorReady = FALSE
    /\ aiPrompt = ""
    /\ generatePrompt = ""
    /\ useEnhanced = FALSE
    /\ camStream = FALSE
    /\ videoStream = FALSE
    /\ isEnhancing = FALSE
    /\ isGenerating = FALSE
    /\ enhRuns = 0
    /\ genRuns = 0
    /\ lastExit = "none"
    /\ shapes = [id \in ShapeIds |-> NoShape]
    /\ selection = {}
    /\ shownAt = [id \in ShapeIds |-> NoPosition]
    /\ selBefore = {}
    /\ lastLayerOp = "none"
    /\ renderedPages = <<InitialPage(ShortId(1))>>
    /\ renderedActive = ShortId(1)
    /\ queuedPages = <<InitialPage(ShortId(1))>>
    /\ queuedActive = ShortId(1)
    /\ updaterActive = Null
    /\ updaterThrows = FALSE
    /\ crashed = FALSE
    /\ panelEditor = FALSE
    /\ panelDoc = EmptyDoc
    /\ panelLastSaved = Null
    /\ panelListening = FALSE
    /\ lastPageOp = "none"

Next == NextProxy \/ NextRelay \/ NextBoard \/ NextClient \/ NextCam \/ NextRuns
            \/ NextLayers \/ NextPanel

Spec == Init /\ [][Next]_vars

\* the proxy routes alone
SpecProxy == Init /\ [][NextProxy]_vars

\* an issued fetch settles and a set timer fires
FairProxy ==
    /\ WF_vars(\E r \in Replies : PromptSubmitted(r))
    /\ WF_vars(\E r \in Replies : StreamSubmitted(r))
    /\ WF_vars(\E r \in Replies : OneshotSubmitted(r))
    /\ WF_vars(\E r \in Replies : PollReplied(r))
    /\ WF_vars(PollWake)

FairSpecProxy == SpecProxy /\ FairProxy

\* the relay alone
SpecRelay == Init /\ [][NextRelay]_vars

\* the board page alone
SpecBoard == Init /\ [][NextBoard]_vars

\* the socket of a page alone
SpecClient == Init /\ [][NextClient]_vars

\* the floating camera window alone
SpecCam == Init /\ [][NextCam]_vars

\* the enhancement and generation runs alone
SpecRuns == Init /\ [][NextRuns]_vars

\* the layers panel alone
SpecLayers == Init /\ [][NextLayers]_vars

\* the earlier Board alone
SpecPanel == Init /\ [][NextPanel]_vars

-----------------------------------------------------------------------------
(* Properties of the proxy routes *)

Absent(v) == v = Undefined \/ v = ""

\* the request body lacks a field its route requires
LacksRequired ==
    \/ route = "prompt" /\ (Absent(req.stream_id) \/ Absent(req.prompt))
    \/ route = "stream" /\ Absent(req.pipeline_id)
    \/ route = "oneshot" /\ Absent(req.prompt)

\* the external service answered with a response (fetch did not reject)
Answered(r) == r # NoReply /\ ~r.thrown

\* ... with a non-success status
Failure(r) == Answered(r) /\ ~(r.status \in 200 .. 299)

\* ... with a success status and a JSON body
Success(r) == Answered(r) /\ r.status \in 200 .. 299 /\ r.isJson

\* C1: a request whose body lacks a required field (prompt route: stream_id or
\* prompt absent or empty; stream route: pipeline_id; oneshot route: prompt) is
\* answered with status 400 and an {error} body, and nothing is sent to the
\* external service.
C1_MissingFieldIs400 ==
    LacksRequired =>
        /\ pc = "responded"
        /\ resp.status = 400
        /\ resp.kind = "error"
        /\ resp.error # ""
        /\ nSubmit = 0
        /\ nPolls = 0

C1_Witness ==
    /\ route = "prompt"
    /\ req.stream_id = "s1"
    /\ req.prompt = ""
    /\ pc = "responded"
    /\ resp.status = 400

\* C2: when the external service answers the submission with a non-success
\* status s and body text t, the route responds with status s and body
\* {error: t}, and no status request is issued.
C2_UpstreamFailureForwarded ==
    Failure(subReply) =>
        /\ pc = "responded"
        /\ resp.kind = "error"
        /\ resp.status = subReply.status
        /\ resp.error = subReply.text
        /\ nPolls = 0

C2_Witness ==
    /\ route = "prompt"
    /\ Failure(subReply)
    /\ subReply.status = 503
    /\ subReply.text = "quota"
    /\ pc = "responded"

\* the submission succeeded and the route has answered without any status request
AnsweredWithoutPolling == Success(subReply) /\ nPolls = 0 /\ pc = "responded"

\* C3 as stated: a success status s and JSON body b of the external service are
\* both passed on unchanged when no polling is needed.
C3_Original ==
    AnsweredWithoutPolling =>
        /\ resp.kind = "json"
        /\ resp.data = subReply.json
        /\ resp.status = subReply.status

\* C3 amended: the JSON body b is passed on unchanged; the response status is
\* 200 whatever success status the external service answered with.
C3_BodyForwardedStatus200 ==
    AnsweredWithoutPolling =>
        /\ resp.kind = "json"
        /\ resp.data = subReply.json
        /\ resp.status = 200

C3_Witness ==
    /\ route = "stream"
    /\ AnsweredWithoutPolling
    /\ subReply.status = 201
    /\ resp.data.out = "imgB"

\* the last status request was answered with a status that is not terminal
NonTerminal(r) == Success(r) /\ r.json.status \notin {"succeeded", "failed"}

\* C4: if every status request of the attempt budget (10) is answered with a
\* non-terminal status, the prompt route answers with status 500 and the error
\* "Polling timed out, result not ready", never with a success response.
\* (nWaits counts the status requests answered with a non-terminal status.)
C4_ExhaustionIsTimeout500 ==
    (nWaits = maxAttempts /\ NonTerminal(pollReply) /\ pc # "sleep") =>
        /\ pc = "responded"
        /\ nPolls = maxAttempts
        /\ resp.kind = "error"
        /\ resp.status = 500
        /\ resp.error = "Polling timed out, result not ready"

C4_Witness ==
    /\ nWaits = 10
    /\ nPolls = 10
    /\ NonTerminal(pollReply)
    /\ pc = "responded"

Handling == pc \in {"submit", "poll", "sleep"}

\* C5: for any sequence of external answers the prompt route issues at most
\* maxAttempts (10) status requests for one job, and, every issued fetch
\* settling and every timer firing, a handler always ends with a response.
C5_BoundedPollingTerminates ==
    /\ [](nPolls <= maxAttempts)
    /\ [](Handling => <>(pc = "responded"))

C5_Witness ==
    /\ nPolls = 10
    /\ i = 10
    /\ pc = "responded"

Terminal(r) == Success(r) /\ r.json.status \in {"succeeded", "failed"}

\* C6: the first status answer "succeeded" ends the loop and its body is the
\* route's success response, verbatim; the first status answer "failed" ends
\* the loop with a failure response; after either no further status request is
\* issued; any other status is followed by a wait and, while attempts remain,
\* by another status request.
C6_TerminalStatusEndsPolling ==
    /\ [](/\ (Success(pollReply) /\ pollReply.json.status = "succeeded") =>
               /\ pc = "responded"
               /\ resp.kind = "json"
               /\ resp.status = 200
               /\ resp.data = pollReply.json
          /\ (Success(pollReply) /\ pollReply.json.status = "failed") =>
               /\ pc = "responded"
               /\ resp.kind = "error"
               /\ resp.status = 500
          /\ (NonTerminal(pollReply) /\ nPolls < maxAttempts) =>
               pc \in {"sleep", "poll"})
    /\ [][/\ Terminal(pollReply) => nPolls' <= nPolls
          /\ (pc = "sleep" /\ nPolls < maxAttempts) =>
               (pc' = "poll" /\ nPolls' = nPolls + 1)]_vars

C6_Witness ==
    /\ nPolls = 3
    /\ Success(pollReply)
    /\ pollReply.json.status = "succeeded"
    /\ pollReply.json.out = "imgB"
    /\ subReply.json.out = "imgA"
    /\ pc = "responded"

\* C9: if a call to the external service throws, during submission or during
\* polling, the route responds with status 500 and body {error: <message>};
\* the handler ends with a response.
C9_ThrownIs500 ==
    /\ (subReply # NoReply /\ subReply.thrown) =>
          /\ pc = "responded"
          /\ resp = [status |-> 500, kind |-> "error", error |-> subReply.msg,
                     data |-> NoJson]
    /\ (pollReply # NoReply /\ pollReply.thrown) =>
          /\ pc = "responded"
          /\ resp = [status |-> 500, kind |-> "error", error |-> pollReply.msg,
                     data |-> NoJson]

C9_Witness ==
    /\ pollReply # NoReply
    /\ pollReply.thrown
    /\ nPolls = 2
    /\ resp.error = "fetch failed"

\* C10 as stated: whenever a call to the external service, a status request of
\* the polling loop included, returns a non-success response, the route's
\* response carries that response's status code and body.
C10_Original ==
    /\ Failure(subReply) =>
          (pc = "responded" /\ resp.status = subReply.status
                            /\ resp.error = subReply.text)
    /\ Failure(pollReply) =>
          (pc = "responded" /\ resp.status = pollReply.status
                            /\ resp.error = pollReply.text)

\* C10 amended: a non-success answer to the submission is passed on with its
\* status code and its body as {error}; a non-success answer to a status
\* request is answered with status 500 and its body as {error}.
C10_PollFailureIs500 ==
    /\ Failure(subReply) =>
          (pc = "responded" /\ resp.kind = "error"
                            /\ resp.status = subReply.status
                            /\ resp.error = subReply.text)
    /\ Failure(pollReply) =>
          (pc = "responded" /\ resp.kind = "error"
                            /\ resp.status = 500
                            /\ resp.error = pollReply.text)

C10_Witness ==
    /\ Failure(pollReply)
    /\ pollReply.status = 404
    /\ pollReply.text = "bad input"
    /\ pc = "responded"

\* the request passed the route's check and a submission was sent
Forwarded == nSubmit = 1 /\ fwd # NoFwd

\* C11: the image is optional for the prompt and oneshot routes: a body with
\* the required fields and no image is not rejected with 400 but forwarded with
\* pipeline "text-to-image" and no image parameter; a body with an image is
\* forwarded with pipeline "image-to-image" and that image.
C11_ImageOptional ==
    (route \in {"prompt", "oneshot"} /\ ~LacksRequired) =>
        /\ Forwarded
        /\ fwd.prompt = req.prompt
        /\ resp.status = 400 => Failure(subReply)
        /\ Absent(req.image) =>
              (fwd.pipeline = "text-to-image" /\ fwd.image = Undefined)
        /\ ~Absent(req.image) =>
              (fwd.pipeline = "image-to-image" /\ fwd.image = req.image)

C11_Witness ==
    /\ route = "prompt"
    /\ req.stream_id = "s1"
    /\ req.image = Undefined
    /\ Forwarded
    /\ fwd.pipeline = "text-to-image"
    /\ pc = "responded"
    /\ resp.status = 200

\* C18 as stated: the prompt route polls only if the submitted job is still
\* running: when the submission's answer already reports a terminal status
\* (succeeded or failed), no status request is made.
C18_Original ==
    (route = "prompt" /\ Success(subReply)
        /\ subReply.json.status \in {"succeeded", "failed"}) => nPolls = 0

\* C19: the first status request is issued right after the submission without
\* a wait before it, between two consecutive status requests exactly one wait
\* of the fixed interval occurs (no backoff), and the number of waits for one
\* job never exceeds the attempt ceiling.
C19_OneFixedWaitBetweenPolls ==
    /\ nWaits <= maxAttempts
    /\ elapsed = nWaits * 3000
    /\ pc = "submit" => (nPolls = 0 /\ nWaits = 0)
    /\ pc = "poll" => nPolls = nWaits + 1
    /\ pc = "sleep" => nPolls = nWaits
    /\ (pc = "responded" /\ nPolls > 0) => nWaits \in {nPolls - 1, nPolls}

C19_Witness ==
    /\ pc = "poll"
    /\ nPolls = 3
    /\ nWaits = 2
    /\ elapsed = 6000

\* the prompt route has answered with a success response
PromptSucceeded == route = "prompt" /\ pc = "responded" /\ resp.kind = "json"

\* C20 as stated: whenever the prompt route returns a success response, the job
\* status in the returned body is "succeeded".
C20_Original ==
    PromptSucceeded => resp.data.status = "succeeded"

\* C20 amended: whenever the prompt route returns a success response, the job
\* status in the returned body is "succeeded", or the submission's answer
\* carried no job id and is returned as it is, without any status request.
C20_SuccessIsTerminalOrUnpollable ==
    PromptSucceeded =>
        \/ resp.data.status = "succeeded"
        \/ /\ nPolls = 0
           /\ subReply.json.id \in {Undefined, ""}
           /\ resp.data = subReply.json

C20_Witness ==
    /\ PromptSucceeded
    /\ nPolls = 4
    /\ subReply.json.status = "processing"
    /\ resp.data.status = "succeeded"

-----------------------------------------------------------------------------
(* Properties of the relay *)

\* a step in which the relay emits a message to a room
BroadcastStep == lastRoom = NoRoom /\ lastRoom' # NoRoom

\* a step in which the relay handles a joinSession event
JoinStep == connected' = connected /\ joined' # joined

\* C7 as stated: a broadcast to room r reaches exactly the connected sockets
\* that have emitted joinSession(r).
C7_Original ==
    [][BroadcastStep =>
         delivered' = {s \in connected : lastRoom' \in joined[s]}]_vars

\* C7 amended: a broadcast to room r reaches exactly the connected sockets that
\* have emitted joinSession(r) or whose own socket id is r; with A in "abc" and
\* B only in "xyz", a broadcast to "abc" reaches A and not B.
C7_BroadcastReachesMembers ==
    [][BroadcastStep =>
         /\ delivered' = {s \in connected :
                            lastRoom' \in joined[s] \/ lastRoom' = SocketId(s)}
         /\ \A a, b \in connected :
               (lastRoom' = "abc" /\ "abc" \in joined[a] /\ joined[b] = {"xyz"})
                   => (a \in delivered' /\ b \notin delivered')]_vars

C7_Witness ==
    /\ connected = {1, 2}
    /\ joined[1] = {"abc"}
    /\ joined[2] = {"xyz"}
    /\ lastRoom = "abc"
    /\ delivered = {1}

\* C8: handling joinSession changes only the emitting connection's room
\* membership: the relay emits nothing, and the memberships of all other
\* connections are unchanged.
C8_JoinChangesOnlyEmitter ==
    [][JoinStep =>
         /\ \A t \in Sockets : joined'[t] = joined[t] => rooms'[t] = rooms[t]
         /\ Cardinality({t \in Sockets : rooms'[t] # rooms[t]}) <= 1
         /\ lastRoom' = lastRoom
         /\ delivered' = delivered]_vars

C8_Witness ==
    /\ connected = {1, 2}
    /\ joined[1] = {"abc"}
    /\ rooms[1] = {"sid1", "abc"}
    /\ rooms[2] = {"sid2"}
    /\ lastRoom = NoRoom

\* C28: room membership only grows while a connection is open: a connection
\* that emitted joinSession for r1 and later for r2 is a member of both and
\* receives the broadcasts addressed to either; a connection loses memberships
\* only in the step in which it disconnects.
C28_MembershipOnlyGrows ==
    /\ [](\A s \in connected : joined[s] \subseteq rooms[s])
    /\ [][/\ \A s \in connected \cap connected' : rooms[s] \subseteq rooms'[s]
          /\ BroadcastStep =>
                \A s \in connected : lastRoom' \in joined[s] => s \in delivered']_vars

C28_Witness ==
    /\ 1 \in connected
    /\ joined[1] = {"abc", "xyz"}
    /\ rooms[1] = {"sid1", "abc", "xyz"}
    /\ lastRoom = "abc"
    /\ 1 \in delivered

-----------------------------------------------------------------------------
(* Properties of the board page *)

\* the step that renders a Board
OpenStep == ~open /\ open'

\* a step that calls saveCanvasState
SaveStep == lastOp' = "save"

\* the item last written for every room parses to the list that was written
StoredPagesParse ==
    \A r \in RoomIds :
        IF written[r].some
        THEN ParsePages(storage[StorageKey(r)]) = written[r].pages
        ELSE storage[StorageKey(r)] = NoItem

\* C12: the pages list saveCanvasState writes under canvas-state-<roomId>
\* round-trips through JSON: a board page initialised later for the same roomId
\* starts with the list last written for that room, and what was written for
\* another room is never read (a room nothing was written for starts with the
\* fresh initial page).
C12_StoredPagesRoundTrip ==
    /\ []StoredPagesParse
    /\ [][OpenStep =>
            pages' = IF written[boardRoom'].some
                     THEN written[boardRoom'].pages
                     ELSE <<InitialPage(activePageId')>>]_vars

C12_Witness ==
    /\ lastOp = "open"
    /\ written[boardRoom].some
    /\ pages = written[boardRoom].pages
    /\ pages[1].canvasData # Null
    /\ \E r \in RoomIds \ {boardRoom} : written[r].some /\ written[r].pages # pages

\* a store change with source "user" that no save has followed yet has a save
\* under way: the debounce timer is set or an idle callback is scheduled
SavePending == armed \/ idlePending > 0

\* C13: every store change with source "user" is eventually followed by a save,
\* through the debounced save that the change triggers: while a user change is
\* not yet followed by a save, the debounced save is pending.
C13_Original == unsaved => SavePending

\* C17: saveCanvasState replaces the canvasData of exactly the page whose id is
\* the active page id with the editor's current snapshot and leaves every other
\* page as it is, and writes the new list to local storage; when the editor is
\* not mounted or the serialized snapshot equals the last saved one, the pages
\* list and local storage are unchanged.
C17_SaveReplacesActivePageOnly ==
    [][SaveStep =>
         IF ~editorMounted \/ StringifySnapshot(doc') = lastSavedState
         THEN pages' = pages /\ storage' = storage
         ELSE /\ Len(pages') = Len(pages)
              /\ \A k \in 1 .. Len(pages) :
                    /\ pages'[k].id = pages[k].id
                    /\ pages'[k].name = pages[k].name
                    /\ pages'[k].canvasData =
                           IF pages[k].id = activePageId THEN doc'
                                                        ELSE pages[k].canvasData
              /\ \A key \in StorageKeys \ {StorageKey(boardRoom)} :
                    storage'[key] = storage[key]]_vars

C17_Witness ==
    /\ lastOp = "save"
    /\ editorMounted
    /\ doc # EmptyDoc
    /\ pages[1].id = activePageId
    /\ pages[1].canvasData = doc
    /\ lastSavedState = StringifySnapshot(doc)
    /\ storage[StorageKey(boardRoom)] = StringifyPages(pages)

-----------------------------------------------------------------------------
(* Properties of the socket of a page *)

\* a step in which the client emits on its socket
EmitStep == nEmits' > nEmits

\* C14: the only event a board or viewer client emits on its socket is
\* joinSession carrying the page's room identifier; it is emitted once on each
\* connect, reconnects included, and only in the step in which the socket
\* becomes connected; nothing else (no snapshot, no drawing data) is sent.
C14_OnlyJoinSessionOnConnect ==
    /\ [](/\ emitted \subseteq {JoinSessionEvent(sockRoom)}
          /\ nEmits = nConnects
          /\ nConnects = 0 => emitted = {})
    /\ [][EmitStep =>
            /\ sockState # "connected"
            /\ sockState' = "connected"
            /\ nEmits' = nEmits + 1]_vars

C14_Witness ==
    /\ sockState = "connected"
    /\ nConnects = 2
    /\ nEmits = 2
    /\ emitted = {JoinSessionEvent(sockRoom)}
    /\ sockRoom \in RoomIds

-----------------------------------------------------------------------------
(* Properties of the floating camera window *)

\* the position lies inside the viewport
InViewport(pos) ==
    /\ 0 <= pos.x
    /\ pos.x <= Max(0, viewport.w - size.width)
    /\ 0 <= pos.y
    /\ pos.y <= Max(0, viewport.h - size.height)

\* a step that handles a pointer move
MoveStep == lastCamOp' = "move"

\* C15: after every pointer move made while the window is dragged,
\* 0 <= x <= max(0, innerWidth - width) and 0 <= y <= max(0, innerHeight - height);
\* a pointer move received while not dragging leaves the position unchanged.
C15_DragStaysInViewport ==
    [][MoveStep => IF dragging THEN InViewport(position') ELSE position' = position]_vars

C15_Witness ==
    /\ lastCamOp = "move"
    /\ dragging
    /\ viewport.w < size.width
    /\ position.x = 0
    /\ position.y = viewport.h - size.height

\* C16: once the webcam stream has been acquired, the enabled flag of its audio
\* tracks equals the audio toggle and the enabled flag of its video tracks
\* equals the video toggle, in every state.
C16_Original == stream = "live" => (audioEnabled = audioOn /\ videoEnabled = videoOn)

\* a stream whose tracks are live and that no reference reaches can never be
\* stopped
TracksLeaked == orphans > 0

\* C26: no track stays live for an unmounted component: the stream in streamRef
\* is stopped when the component unmounts, and a stream that getUserMedia
\* delivers after the cleanup does not stay live either.
C26_Original == ~TracksLeaked /\ (~camMounted => stream # "live")

-----------------------------------------------------------------------------
(* Properties of the enhancement and generation runs *)

\* C25: a run sets its in-progress flag when it starts and clears it on every
\* exit path, and no second run of the same kind starts while one is in
\* progress, whether the button or the camera state-change callback starts it:
\* at most one run of a kind is in progress, and the flag of a kind is set
\* exactly while a run of that kind is.
C25_Original ==
    /\ enhRuns <= 1
    /\ genRuns <= 1
    /\ isEnhancing <=> enhRuns > 0
    /\ isGenerating <=> genRuns > 0

-----------------------------------------------------------------------------
(* Properties of the layers panel *)

\* a step in which toggleVisibility hides the shape
HideStep(id) == shapes[id].exists /\ ~shapes[id].hidden /\ shapes'[id].hidden

\* a step in which toggleVisibility shows the shape
ShowStep(id) == shapes[id].hidden /\ shapes'[id].exists /\ ~shapes'[id].hidden

\* C21: when toggleVisibility hides a layer, that shape is removed from the
\* selection and every other selected shape stays selected; when it shows a
\* layer, the selection is unchanged.
C21_HideDeselectsOnlyThatShape ==
    [][\A id \in ShapeIds :
          /\ HideStep(id) => selection' = selection \ {id}
          /\ ShowStep(id) => selection' = selection]_vars

C21_Witness ==
    /\ lastLayerOp = "toggle"
    /\ shapes["shape:a"].hidden
    /\ selBefore = {"shape:a", "shape:b"}
    /\ selection = {"shape:b"}

\* C27: hiding a layer and showing it again restores the shape's x and y to the
\* values it had immediately before it was hidden, and every toggle flips the
\* hidden flag, whatever moves and toggles came before.
C27_Original ==
    [][\A id \in ShapeIds :
          /\ ShowStep(id) =>
                (shapes'[id].x = shownAt[id].x /\ shapes'[id].y = shownAt[id].y)
          /\ (lastLayerOp' = "toggle" /\ shapes'[id] # shapes[id]) =>
                shapes'[id].hidden = ~shapes[id].hidden]_vars

-----------------------------------------------------------------------------
(* Properties of the pages list *)

\* C22: after any sequence of add-page, rename-page and delete-page operations,
\* several delete requests handled before a render included, the pages list
\* holds at least one page and rendering does not throw.
C22_Original ==
    /\ Len(queuedPages) >= 1
    /\ Len(renderedPages) >= 1
    /\ ~updaterThrows
    /\ ~crashed

\* C23: while the board page is open, the active page id is the id of a page in
\* the pages list.
C23_Original == open => ActivePages # {}

\* a step of handleAddPage
AddStep == lastPageOp' = "add" /\ queuedPages' # queuedPages

\* C24: handleAddPage appends exactly one page with null canvasData, makes it
\* the active page, and leaves every page that was in the list as it was.
C24_Original ==
    [][AddStep =>
          /\ Len(queuedPages') = Len(queuedPages) + 1
          /\ queuedPages'[Len(queuedPages')].canvasData = Null
          /\ queuedActive' = queuedPages'[Len(queuedPages')].id
          /\ \A k \in 1 .. Len(queuedPages) : queuedPages'[k] = queuedPages[k]]_vars

=============================================================================
